---- MODULE Spec2Model ----
(***************************************************************************)
(* Volume provisioning coordinator of local-lvm-provisioner                *)
(* (images/sds-local-volume-csi/src/pkg/utils/func.go): creation and       *)
(* deletion of the LVMLogicalVolume record with finalizer handling, and    *)
(* the poll loop that waits for the record's status.  The declarative      *)
(* store is the Kubernetes API: every write bumps the resource version, an *)
(* Update carrying a stale version is rejected with Conflict, and a Delete *)
(* of a record that still has finalizers only marks it for deletion.       *)
(***************************************************************************)
EXTENDS Integers, Sequences, FiniteSets, TLC

\* ---- program constants -------------------------------------------------
KubernetesAPIRequestLimit == 3
SDSLocalVolumeCSIFinalizer == "storage.deckhouse.io/sds-local-volume-csi"
LLVStatusCreated == "Created"
LLVStatusFailed == "Failed"
LVMTypeThin == "Thin"
LVMTypeThick == "Thick"

\* sds-lvm-csi/pkg/utils/func.go
KubernetesApiRequestLimit == 3

\* ---- bounds of the model -------------------------------------------------
NumCallers == 2  \* concurrent callers of the store wrappers
MaxGroups == 3   \* volume groups in the list given to the placement
MaxFree == 2     \* largest size reported by a volume group or thin pool
MaxRev == 4      \* writes accepted by the store in one behaviour
MaxPolls == 4    \* iterations of the poll loop in one behaviour
MaxSize == 3     \* largest actual size the reconciler reports

\* ---- values the environment supplies -------------------------------------
ReconcilerFinalizer == "storage.deckhouse.io/sds-node-configurator"
LLVStatusPending == "Pending"
Sizes == 0..MaxSize
WaitSizes == {1}
Deltas == {1, 2}
Reasons == {"no space", "vg missing"}
NewSizes == {2}
Callers == 1..NumCallers
LLVSpecs == {[size |-> 1]}

\* ---- errors: the chain of an error from the outermost wrapper inwards ----
NoError == <<>>
ErrNotFound == <<"NotFound">>
ErrAlreadyExists == <<"AlreadyExists">>
ErrConflict == <<"Conflict">>
ErrUnavailable == <<"Unavailable">>
ErrCanceled == <<"context canceled">>

\* fmt.Errorf("msg: %w", err): a new error whose cause is err (none for nil)
Wrap(msg, err) == <<msg>> \o err

\* errors.Is / kerrors.Is*: the chain contains the kind
ErrorIs(err, kind) == \E i \in 1..Len(err) : err[i] = kind[1]

IsConflictMutAny(err) == err # NoError
IsConflict(err) == ErrorIs(err, ErrConflict)

\* ---- records --------------------------------------------------------------
NoRecord == [exists |-> FALSE]
NilStatus == [present |-> FALSE, phase |-> "", actualSize |-> 0, reason |-> ""]

HasFinalizer(fin, finalizer) == \E i \in 1..Len(fin) : fin[i] = finalizer

VARIABLES
    store,          \* the LVMLogicalVolume held by the store, or NoRecord
    rev,            \* the store's revision counter (source of resourceVersion)
    tomb,           \* the record as it was when the store last removed it
    createErr,      \* error of the last CreateLVMLogicalVolume, "none" before
    wPc,            \* WaitForStatusUpdate: position in the loop
    wArgs,          \* WaitForStatusUpdate: llvSize and delta
    attemptCounter, \* WaitForStatusUpdate: attemptCounter
    wFetches,       \* WaitForStatusUpdate: Gets issued so far
    wObs,           \* WaitForStatusUpdate: the records fetched, oldest first
    wErr,           \* WaitForStatusUpdate: returned error
    ctxWait,        \* WaitForStatusUpdate: ctx is done
    wCancelAt,      \* Gets issued when ctx became done, -1 while it is not
    dPc,            \* DeleteLVMLogicalVolume: position
    llv,            \* DeleteLVMLogicalVolume: the local copy of the record
    attempt,        \* removeLLVFinalizerIfExist: attempt
    calls,          \* store calls of DeleteLVMLogicalVolume, oldest first
    rfArg,          \* the record removeLLVFinalizerIfExist was called with
    rfRet,          \* what removeLLVFinalizerIfExist returned
    dErr,           \* DeleteLVMLogicalVolume: returned error
    ctxDel,         \* DeleteLVMLogicalVolume: ctx is done
    rPc,            \* per caller of a store wrapper: "idle", "run" or "done"
    rFn,            \* per caller: the wrapper it runs
    rObj,           \* per caller: the record it passes to the wrapper
    rAttempts,      \* per caller: the errors of its store calls, oldest first
    rRet,           \* per caller: the error the wrapper returned
    placePc,        \* placement: "ready", or "done" after GetNodeWithMaxFreeSpace,
                    \* "doneLvm" after GetNodeMaxFreeVGSize, "placed" after SelectLVG
                    \* of the node with the maximum, "selected" after SelectLVG of
                    \* a given node, "built" after GetLLVSpec
    placeIn,        \* placement: the volume groups, the parameters map, the type
    placeOut,       \* placement: what GetNodeWithMaxFreeSpace returned
    placeSel,       \* placement: the node given to SelectLVG and what it returned
    placeSpec,      \* placement: the arguments and the result of GetLLVSpec
    eqPc,           \* AreSizesEqualWithinDelta: "ready" or "done"
    eqIn,           \* AreSizesEqualWithinDelta: leftSize, rightSize, allowedDelta
    eqOut,          \* AreSizesEqualWithinDelta: the result, and the result with
                    \* leftSize and rightSize exchanged
    lvgStore,       \* the volume groups the store holds, in the order of a List
    recs,           \* per caller: the record of the volume it provisions
    prov            \* per caller of Provision: position, the groups it read,
                    \* the free space and the group it selected, the size

vars == <<store, rev, tomb, createErr,
          wPc, wArgs, attemptCounter, wFetches, wObs, wErr, ctxWait, wCancelAt,
          dPc, llv, attempt, calls, rfArg, rfRet, dErr, ctxDel,
          rPc, rFn, rObj, rAttempts, rRet,
          placePc, placeIn, placeOut, placeSel, placeSpec,
          eqPc, eqIn, eqOut,
          lvgStore, recs, prov>>

storeVars == <<store, rev, tomb>>
waitVars == <<wPc, wArgs, attemptCounter, wFetches, wObs, wErr, ctxWait, wCancelAt>>
delVars == <<dPc, llv, attempt, calls, rfArg, rfRet, dErr, ctxDel>>
retryVars == <<rPc, rFn, rObj, rAttempts, rRet>>
placeVars == <<placePc, placeIn, placeOut, placeSel, placeSpec>>
eqVars == <<eqPc, eqIn, eqOut>>
provVars == <<lvgStore, recs, prov>>

\* ---- the store ------------------------------------------------------------
\* A write that leaves a record marked for deletion without finalizers
\* removes it; the removed record is kept in tomb.
Commit(new) ==
    IF new.del /\ new.fin = <<>>
    THEN [store |-> NoRecord, tomb |-> new]
    ELSE [store |-> new, tomb |-> tomb]

\* kc.Create: the name must be free
StoreCreateErr(fail) ==
    IF fail THEN ErrUnavailable
    ELSE IF store.exists THEN ErrAlreadyExists
    ELSE NoError

\* kc.Get
StoreGetErr(fail) ==
    IF fail THEN ErrUnavailable
    ELSE IF ~store.exists THEN ErrNotFound
    ELSE NoError

\* kc.Update: conditional on the resource version of the object sent
StoreUpdateErr(obj, fail) ==
    IF fail THEN ErrUnavailable
    ELSE IF ~store.exists THEN ErrNotFound
    ELSE IF obj.ver # store.ver THEN ErrConflict
    ELSE NoError

StoreUpdated(obj) == [obj EXCEPT !.ver = rev + 1, !.del = store.del]

\* kc.Delete: by name, no precondition
StoreDeleteErr(fail) ==
    IF fail THEN ErrUnavailable
    ELSE IF ~store.exists THEN ErrNotFound
    ELSE NoError

StoreDeleted == [store EXCEPT !.ver = rev + 1, !.del = TRUE]

\* GetLVMLogicalVolume (line 139-148): the record and a nil error, or the
\* zero value of the record and the error of kc.Get
GetLVMLogicalVolume(fail) ==
    IF StoreGetErr(fail) = NoError
    THEN store
    ELSE [exists |-> FALSE, err |-> StoreGetErr(fail), fin |-> <<>>, del |-> FALSE,
          ver |-> 0, status |-> NilStatus, spec |-> [size |-> 0]]

\* ---- CreateLVMLogicalVolume ------------------------------------------------
NewLLVMutNoFinalizer(spec) ==
    [exists |-> TRUE, fin |-> <<>>, del |-> FALSE, ver |-> 0,
     status |-> NilStatus, spec |-> spec]
NewLLV(spec) ==
    [exists |-> TRUE, fin |-> <<SDSLocalVolumeCSIFinalizer>>, del |-> FALSE,
     ver |-> 0, status |-> NilStatus, spec |-> spec]

CreateLVMLogicalVolume(spec, fail) ==
    /\ LET err == StoreCreateErr(fail) IN
       /\ err = NoError => rev < MaxRev
       /\ createErr' = err
       /\ IF err = NoError
          THEN /\ store' = [NewLLV(spec) EXCEPT !.ver = rev + 1]
               /\ rev' = rev + 1
          ELSE UNCHANGED <<store, rev>>
    /\ UNCHANGED <<tomb>>
    /\ UNCHANGED waitVars
    /\ UNCHANGED delVars
    /\ UNCHANGED retryVars
    /\ UNCHANGED placeVars
    /\ UNCHANGED eqVars
    /\ UNCHANGED provVars

\* ---- the external reconciler and other writers ----------------------------
StoreWrite(new) ==
    /\ rev < MaxRev
    /\ store.exists
    /\ LET c == Commit([new EXCEPT !.ver = rev + 1]) IN
       /\ store' = c.store
       /\ tomb' = c.tomb
    /\ rev' = rev + 1
    /\ UNCHANGED <<createErr>>
    /\ UNCHANGED retryVars
    /\ UNCHANGED placeVars
    /\ UNCHANGED eqVars
    /\ UNCHANGED provVars
    /\ UNCHANGED waitVars
    /\ UNCHANGED delVars

\* status: none -> Pending -> {Created, Failed}; the size of a Created
\* volume may be reported again
ReconcilerSetPending ==
    /\ store.exists /\ ~store.status.present
    /\ StoreWrite([store EXCEPT !.status =
           [present |-> TRUE, phase |-> LLVStatusPending, actualSize |-> 0, reason |-> ""]])

ReconcilerSetCreated(size) ==
    /\ store.exists /\ store.status.present
    /\ \/ store.status.phase = LLVStatusPending
       \/ store.status.phase = LLVStatusCreated /\ store.status.actualSize # size
    /\ StoreWrite([store EXCEPT !.status =
           [present |-> TRUE, phase |-> LLVStatusCreated, actualSize |-> size, reason |-> ""]])

ReconcilerSetFailed(reason) ==
    /\ store.exists /\ store.status.present
    /\ store.status.phase = LLVStatusPending
    /\ StoreWrite([store EXCEPT !.status =
           [present |-> TRUE, phase |-> LLVStatusFailed, actualSize |-> 0, reason |-> reason]])

\* another writer adds a finalizer of its own (refused once deletion started)
WriterAddFinalizer ==
    /\ store.exists /\ ~store.del
    /\ ~HasFinalizer(store.fin, ReconcilerFinalizer)
    /\ StoreWrite([store EXCEPT !.fin = Append(@, ReconcilerFinalizer)])

\* another writer removes one finalizer, whoever owns it
WriterRemoveFinalizer(i) ==
    /\ store.exists /\ i \in 1..Len(store.fin)
    /\ StoreWrite([store EXCEPT !.fin = SubSeq(@, 1, i - 1) \o SubSeq(@, i + 1, Len(@))])

\* another actor deletes the record
WriterDelete ==
    /\ store.exists /\ ~store.del
    /\ StoreWrite(StoreDeleted)

\* ---- WaitForStatusUpdate ---------------------------------------------------
\* math.Abs of the difference
AbsDiffMutSigned(a, b) == a - b
AbsDiff(a, b) == IF a >= b THEN a - b ELSE b - a

\* a float64 keeps 53 significant bits and rounds the rest to nearest, ties
\* to even
Float64Bits == 53
RECURSIVE BitLen(_)
BitLen(n) == IF n = 0 THEN 0 ELSE 1 + BitLen(n \div 2)
RECURSIVE Pow2(_)
Pow2(k) == IF k = 0 THEN 1 ELSE 2 * Pow2(k - 1)
RoundToBits(n, bits) ==
    IF BitLen(n) <= bits THEN n
    ELSE LET unit == Pow2(BitLen(n) - bits)
             q == n \div unit
             r == n % unit
         IN IF 2 * r > unit \/ (2 * r = unit /\ q % 2 = 1)
            THEN (q + 1) * unit
            ELSE q * unit

\* float64(q.Value()), and the float64 result of a subtraction
Float64(v) == IF v >= 0 THEN RoundToBits(v, Float64Bits) ELSE 0 - RoundToBits(0 - v, Float64Bits)

AreSizesEqualWithinDeltaMutLeq(leftSize, rightSize, allowedDelta) ==
    Float64(AbsDiff(Float64(leftSize), Float64(rightSize))) <= Float64(allowedDelta)
AreSizesEqualWithinDelta(leftSize, rightSize, allowedDelta) ==
    Float64(AbsDiff(Float64(leftSize), Float64(rightSize))) < Float64(allowedDelta)

\* AreSizesEqualWithinDelta applied to one triple of quantities, in both orders
EqDeltas == 0..MaxSize
ApplyAreSizesEqualWithinDelta ==
    /\ eqPc = "ready"
    /\ eqPc' = "done"
    /\ eqOut' = [leftRight |-> AreSizesEqualWithinDelta(eqIn.leftSize, eqIn.rightSize,
                                                        eqIn.allowedDelta),
                 rightLeft |-> AreSizesEqualWithinDelta(eqIn.rightSize, eqIn.leftSize,
                                                        eqIn.allowedDelta)]
    /\ UNCHANGED eqIn
    /\ UNCHANGED <<createErr>>
    /\ UNCHANGED storeVars
    /\ UNCHANGED waitVars
    /\ UNCHANGED delVars
    /\ UNCHANGED retryVars
    /\ UNCHANGED placeVars
    /\ UNCHANGED provVars

\* the part of one iteration after the fetch: the error to return, or
\* "continue" for another iteration
CheckStatusMutNoFailed(fetched, llvSize, delta) ==
    IF ~fetched.status.present THEN "continue"
    ELSE IF fetched.del THEN <<"ConflictingDeletion">>
    ELSE IF fetched.status.phase = LLVStatusCreated
              /\ AreSizesEqualWithinDelta(llvSize, fetched.status.actualSize, delta)
         THEN NoError
    ELSE "continue"
CheckStatus(fetched, llvSize, delta) ==
    IF ~fetched.status.present THEN "continue"
    ELSE IF fetched.del THEN <<"ConflictingDeletion">>
    ELSE IF fetched.status.phase = LLVStatusFailed THEN <<"VolumeFailed", fetched.status.reason>>
    ELSE IF fetched.status.phase = LLVStatusCreated
              /\ AreSizesEqualWithinDelta(llvSize, fetched.status.actualSize, delta)
         THEN NoError
    ELSE "continue"

\* line 107: the fetch failed
FetchFailedMutNotFoundOnly(err) == ErrorIs(err, ErrNotFound)
FetchFailed(err) == err # NoError

WaitStart(llvSize, delta) ==
    /\ wPc = "idle"
    /\ wPc' = "select"
    /\ wArgs' = [llvSize |-> llvSize, delta |-> delta]
    /\ UNCHANGED <<attemptCounter, wFetches, wObs, wErr, ctxWait, wCancelAt>>
    /\ UNCHANGED <<createErr>>
    /\ UNCHANGED retryVars
    /\ UNCHANGED placeVars
    /\ UNCHANGED eqVars
    /\ UNCHANGED provVars
    /\ UNCHANGED storeVars
    /\ UNCHANGED delVars

\* attemptCounter++ and the select on ctx.Done(): return, or start the sleep
WaitSelect ==
    /\ wPc = "select"
    /\ attemptCounter < MaxPolls
    /\ attemptCounter' = attemptCounter + 1
    /\ IF ctxWait
       THEN wPc' = "done" /\ wErr' = ErrCanceled
       ELSE wPc' = "sleep" /\ UNCHANGED wErr
    /\ UNCHANGED <<wArgs, wFetches, wObs, ctxWait, wCancelAt>>
    /\ UNCHANGED <<createErr>>
    /\ UNCHANGED retryVars
    /\ UNCHANGED placeVars
    /\ UNCHANGED eqVars
    /\ UNCHANGED provVars
    /\ UNCHANGED storeVars
    /\ UNCHANGED delVars

\* the sleep is over: fetch the record and look at its status
WaitFetch(fail) ==
    /\ wPc = "sleep"
    /\ wFetches' = wFetches + 1
    /\ LET err == StoreGetErr(fail)
           fetched == GetLVMLogicalVolume(fail)
       IN
       /\ wObs' = Append(wObs, fetched)
       /\ IF FetchFailed(err)
          THEN /\ wPc' = "done"
               /\ wErr' = err
          ELSE LET r == CheckStatus(fetched, wArgs.llvSize, wArgs.delta) IN
               IF r = "continue"
               THEN wPc' = "select" /\ UNCHANGED wErr
               ELSE wPc' = "done" /\ wErr' = r
    /\ UNCHANGED <<wArgs, attemptCounter, ctxWait, wCancelAt>>
    /\ UNCHANGED <<createErr>>
    /\ UNCHANGED retryVars
    /\ UNCHANGED placeVars
    /\ UNCHANGED eqVars
    /\ UNCHANGED provVars
    /\ UNCHANGED storeVars
    /\ UNCHANGED delVars

\* the caller's context is canceled or its deadline passes
CancelWait ==
    /\ wPc \in {"select", "sleep"}
    /\ ~ctxWait
    /\ ctxWait' = TRUE
    /\ wCancelAt' = wFetches
    /\ UNCHANGED <<wPc, wArgs, attemptCounter, wFetches, wObs, wErr>>
    /\ UNCHANGED <<createErr>>
    /\ UNCHANGED retryVars
    /\ UNCHANGED placeVars
    /\ UNCHANGED eqVars
    /\ UNCHANGED provVars
    /\ UNCHANGED storeVars
    /\ UNCHANGED delVars

\* ---- DeleteLVMLogicalVolume and removeLLVFinalizerIfExist -------------------
Call(fn, op, err) == [fn |-> fn, op |-> op, err |-> err]

\* line 338-344: the index of the first occurrence of finalizer, 0 if none
FinalizerIndexMutNotEqual(fin, finalizer) ==
    IF \E i \in 1..Len(fin) : fin[i] # finalizer
    THEN CHOOSE i \in 1..Len(fin) :
             fin[i] # finalizer /\ \A j \in 1..(i - 1) : fin[j] = finalizer
    ELSE 0
FinalizerIndex(fin, finalizer) ==
    IF \E i \in 1..Len(fin) : fin[i] = finalizer
    THEN CHOOSE i \in 1..Len(fin) :
             fin[i] = finalizer /\ \A j \in 1..(i - 1) : fin[j] # finalizer
    ELSE 0

\* slices.Delete(s, i, i+1)
SlicesDeleteMutTruncate(s, i) == SubSeq(s, 1, i - 1)
SlicesDelete(s, i) == SubSeq(s, 1, i - 1) \o SubSeq(s, i + 1, Len(s))

\* the condition of the for loop
LoopContinuesMutOffByOne(a) == a <= KubernetesAPIRequestLimit
LoopContinues(a) == a < KubernetesAPIRequestLimit

\* line 78: DeleteLVMLogicalVolume gives up when the removal failed
RemoveFailedMutIgnored(err) == FALSE
RemoveFailed(err) == err # NoError

ExhaustedMsg == "after 3 attempts of removing finalizer"

\* removeLLVFinalizerIfExist returns to DeleteLVMLogicalVolume (line 77-85)
RemoveReturns(removed, err) ==
    /\ rfRet' = [returned |-> TRUE, removed |-> removed, err |-> err]
    /\ IF RemoveFailed(err)
       THEN /\ dPc' = "done"
            /\ dErr' = Wrap("remove finalizers from LVMLogicalVolume", err)
       ELSE /\ dPc' = "delete"
            /\ UNCHANGED dErr

\* the end of one iteration: attempt++ and the loop condition; line 377 when
\* the loop is left
NextAttempt ==
    /\ attempt' = attempt + 1
    /\ IF LoopContinues(attempt + 1)
       THEN dPc' = "remove" /\ UNCHANGED <<rfRet, dErr>>
       ELSE RemoveReturns(FALSE, Wrap(ExhaustedMsg, NoError))

\* line 70: the Get of DeleteLVMLogicalVolume failed
GetFailedMutNotFoundIgnored(err) == err # NoError /\ ~ErrorIs(err, ErrNotFound)
GetFailed(err) == err # NoError

DeleteStart ==
    /\ dPc = "idle"
    /\ dPc' = "get"
    /\ UNCHANGED <<llv, attempt, calls, rfArg, rfRet, dErr, ctxDel>>
    /\ UNCHANGED <<createErr>>
    /\ UNCHANGED retryVars
    /\ UNCHANGED placeVars
    /\ UNCHANGED eqVars
    /\ UNCHANGED provVars
    /\ UNCHANGED storeVars
    /\ UNCHANGED waitVars

\* line 69-77: fetch the record and call removeLLVFinalizerIfExist with it
DeleteGet(fail) ==
    /\ dPc = "get"
    /\ LET err == StoreGetErr(fail) IN
       /\ calls' = Append(calls, Call("DeleteLVMLogicalVolume", "Get", err))
       /\ IF GetFailed(err)
          THEN /\ dPc' = "done"
               /\ dErr' = Wrap("get LVMLogicalVolume", err)
               /\ UNCHANGED <<llv, rfArg>>
          ELSE /\ dPc' = "remove"
               /\ llv' = GetLVMLogicalVolume(fail)
               /\ rfArg' = GetLVMLogicalVolume(fail)
               /\ UNCHANGED dErr
    /\ UNCHANGED <<attempt, rfRet, ctxDel>>
    /\ UNCHANGED <<createErr>>
    /\ UNCHANGED retryVars
    /\ UNCHANGED placeVars
    /\ UNCHANGED eqVars
    /\ UNCHANGED provVars
    /\ UNCHANGED storeVars
    /\ UNCHANGED waitVars

\* line 337-348: the finalizer is not in the local copy
RemoveNotFound ==
    /\ dPc = "remove"
    /\ FinalizerIndex(llv.fin, SDSLocalVolumeCSIFinalizer) = 0
    /\ RemoveReturns(FALSE, NoError)
    /\ UNCHANGED <<llv, attempt, calls, rfArg, ctxDel>>
    /\ UNCHANGED <<createErr>>
    /\ UNCHANGED retryVars
    /\ UNCHANGED placeVars
    /\ UNCHANGED eqVars
    /\ UNCHANGED provVars
    /\ UNCHANGED storeVars
    /\ UNCHANGED waitVars

\* line 337-366: drop the finalizer from the local copy, Update, and on a
\* conflict either start the sleep before the re-fetch or end the iteration
RemoveUpdate(fail) ==
    /\ dPc = "remove"
    /\ FinalizerIndex(llv.fin, SDSLocalVolumeCSIFinalizer) # 0
    /\ LET i == FinalizerIndex(llv.fin, SDSLocalVolumeCSIFinalizer)
           obj == [llv EXCEPT !.fin = SlicesDelete(@, i)]
           err == StoreUpdateErr(obj, fail)
       IN
       /\ err = NoError => rev < MaxRev
       /\ calls' = Append(calls, Call("removeLLVFinalizerIfExist", "Update", err))
       /\ IF err = NoError
          THEN /\ LET c == Commit(StoreUpdated(obj)) IN
                  store' = c.store /\ tomb' = c.tomb
               /\ rev' = rev + 1
               /\ llv' = StoreUpdated(obj)
               /\ RemoveReturns(TRUE, NoError)
               /\ UNCHANGED attempt
          ELSE /\ UNCHANGED storeVars
               /\ llv' = obj
               /\ IF ~IsConflict(err)
                  THEN /\ RemoveReturns(FALSE, Wrap("error updating LVMLogicalVolume", err))
                       /\ UNCHANGED attempt
                  ELSE IF attempt < KubernetesAPIRequestLimit - 1
                  THEN IF ctxDel
                       THEN RemoveReturns(FALSE, ErrCanceled) /\ UNCHANGED attempt
                       ELSE dPc' = "refetch" /\ UNCHANGED <<attempt, rfRet, dErr>>
                  ELSE NextAttempt
    /\ UNCHANGED <<rfArg, ctxDel>>
    /\ UNCHANGED <<createErr>>
    /\ UNCHANGED retryVars
    /\ UNCHANGED placeVars
    /\ UNCHANGED eqVars
    /\ UNCHANGED provVars
    /\ UNCHANGED waitVars

\* line 366-373: the sleep is over, fetch the record again and overwrite the
\* local copy with it
RemoveRefetch(fail) ==
    /\ dPc = "refetch"
    /\ LET err == StoreGetErr(fail) IN
       /\ calls' = Append(calls, Call("removeLLVFinalizerIfExist", "Get", err))
       /\ IF err # NoError
          THEN /\ RemoveReturns(FALSE,
                      Wrap("error getting LVMLogicalVolume after update conflict", err))
               /\ UNCHANGED <<llv, attempt>>
          ELSE /\ llv' = store
               /\ NextAttempt
    /\ UNCHANGED <<rfArg, ctxDel>>
    /\ UNCHANGED <<createErr>>
    /\ UNCHANGED retryVars
    /\ UNCHANGED placeVars
    /\ UNCHANGED eqVars
    /\ UNCHANGED provVars
    /\ UNCHANGED storeVars
    /\ UNCHANGED waitVars

\* line 88-89: kc.Delete, its error returned as it is
DeleteDelete(fail) ==
    /\ dPc = "delete"
    /\ LET err == StoreDeleteErr(fail) IN
       /\ (err = NoError /\ ~store.del) => rev < MaxRev
       /\ calls' = Append(calls, Call("DeleteLVMLogicalVolume", "Delete", err))
       /\ dErr' = err
       /\ IF err = NoError /\ ~store.del
          THEN /\ LET c == Commit(StoreDeleted) IN
                  store' = c.store /\ tomb' = c.tomb
               /\ rev' = rev + 1
          ELSE UNCHANGED storeVars
    /\ dPc' = "done"
    /\ UNCHANGED <<llv, attempt, rfArg, rfRet, ctxDel>>
    /\ UNCHANGED <<createErr>>
    /\ UNCHANGED retryVars
    /\ UNCHANGED placeVars
    /\ UNCHANGED eqVars
    /\ UNCHANGED provVars
    /\ UNCHANGED waitVars

CancelDelete ==
    /\ dPc \in {"get", "remove", "refetch", "delete"}
    /\ ~ctxDel
    /\ ctxDel' = TRUE
    /\ UNCHANGED <<dPc, llv, attempt, calls, rfArg, rfRet, dErr>>
    /\ UNCHANGED <<createErr>>
    /\ UNCHANGED retryVars
    /\ UNCHANGED placeVars
    /\ UNCHANGED eqVars
    /\ UNCHANGED provVars
    /\ UNCHANGED storeVars
    /\ UNCHANGED waitVars

\* ---- the store wrappers -----------------------------------------------------
\* sds-lvm-csi/pkg/utils/func.go: loops of KubernetesApiRequestLimit attempts
LvmCreate == "sds-lvm-csi CreateLVMLogicalVolume"
LvmDelete == "sds-lvm-csi DeleteLVMLogicalVolume"
LvmGet == "sds-lvm-csi GetLVMLogicalVolume"
LvmUpdate == "sds-lvm-csi UpdateLVMLogicalVolume"
LvmList == "sds-lvm-csi GetNodeMaxFreeVGSize"
\* sds-local-volume-csi/src/pkg/utils/func.go: one call
LocalCreate == "sds-local-volume-csi CreateLVMLogicalVolume"
LocalLVGList == "sds-local-volume-csi GetLVGList"
LocalExpand == "sds-local-volume-csi ExpandLVMLogicalVolume"

LoopFns == {LvmCreate, LvmDelete, LvmGet, LvmUpdate, LvmList}
CreateFns == {LvmCreate, LocalCreate}
UpdateFns == {LvmUpdate, LocalExpand}
WrapperFns == LoopFns \cup {LocalCreate, LocalLVGList, LocalExpand}

\* kc.List of the volume groups
StoreListErr(fail) == IF fail THEN ErrUnavailable ELSE NoError

\* sds-lvm-csi CreateLVMLogicalVolume line 45-55: no finalizer
NewLvmLLV(spec) ==
    [exists |-> TRUE, fin |-> <<>>, del |-> FALSE, ver |-> 0,
     status |-> NilStatus, spec |-> spec]

\* kerrors.IsAlreadyExists
IsAlreadyExistsMutNever(err) == FALSE
IsAlreadyExists(err) == ErrorIs(err, ErrAlreadyExists)

\* sds-lvm-csi line 63-65: return nil, err
AlreadyExistsResultMutSuccess(err) == NoError
AlreadyExistsResult(err) == err

\* the attempts a wrapper makes at most
AttemptLimit(fn) == IF fn \in LoopFns THEN KubernetesApiRequestLimit ELSE 1

\* the message of the error a loop returns after its last attempt
AfterAttemptsMsg(fn) ==
    CASE fn = LvmCreate -> "after 3 attempts of creating LVMLogicalVolume"
      [] fn = LvmDelete -> "after 3 attempts of deleting LVMLogicalVolume"
      [] fn = LvmGet -> "after 3 attempts of getting LVMLogicalVolume"
      [] fn = LvmUpdate -> "after 3 attempts of updating LVMLogicalVolume"
      [] fn = LvmList -> "after 3 attempts of getting LvmVolumeGroups"

\* the err the code after the loop looks at: in DeleteLVMLogicalVolume the
\* loop assigns a new err (err := kc.Delete, line 89), the outer one stays nil
ErrAfterLoop(fn, err) == IF fn = LvmDelete THEN NoError ELSE err

Continue == <<"continue">>

\* what a wrapper does after a store call that returned err, errs being the
\* errors of its calls so far, err included: Continue or the error it returns
AfterAttempt(fn, errs, err) ==
    IF fn \notin LoopFns THEN err
    ELSE IF err = NoError THEN NoError
    ELSE IF fn = LvmCreate /\ IsAlreadyExists(err) THEN AlreadyExistsResult(err)
    ELSE IF Len(errs) < KubernetesApiRequestLimit THEN Continue
    ELSE IF ErrAfterLoop(fn, err) # NoError
         THEN Wrap(AfterAttemptsMsg(fn), ErrAfterLoop(fn, err))
    ELSE NoError

\* the error of the store call a wrapper makes
StoreCallErr(fn, obj, fail) ==
    CASE fn \in CreateFns -> StoreCreateErr(fail)
      [] fn = LvmDelete -> StoreDeleteErr(fail)
      [] fn = LvmGet -> StoreGetErr(fail)
      [] fn \in UpdateFns -> StoreUpdateErr(obj, fail)
      [] fn \in {LvmList, LocalLVGList} -> StoreListErr(fail)

\* the store after it accepted the call
StoreCallEffect(fn, obj) ==
    CASE fn = LvmCreate -> [store |-> [NewLvmLLV(obj.spec) EXCEPT !.ver = rev + 1], tomb |-> tomb]
      [] fn = LocalCreate -> [store |-> [NewLLV(obj.spec) EXCEPT !.ver = rev + 1], tomb |-> tomb]
      [] fn = LvmDelete -> IF store.del THEN [store |-> store, tomb |-> tomb]
                           ELSE Commit(StoreDeleted)
      [] fn \in UpdateFns -> Commit(StoreUpdated(obj))
      [] OTHER -> [store |-> store, tomb |-> tomb]

\* ExpandLVMLogicalVolume line 255: llv.Spec.Size = newSize
SetSpecSizeMutNewObject(obj, newSize) ==
    [exists |-> TRUE, fin |-> <<>>, del |-> FALSE, ver |-> obj.ver,
     status |-> NilStatus, spec |-> [size |-> newSize]]
SetSpecSize(obj, newSize) == [obj EXCEPT !.spec.size = newSize]

\* a caller enters a wrapper.  Create gets the spec of the new record; Update
\* gets the record as the caller fetched it; ExpandLVMLogicalVolume (line
\* 254-257) sets Spec.Size of the record it was given
WrapperStart(p, fn, spec, newSize) ==
    /\ rPc[p] = "idle"
    /\ fn \in UpdateFns => store.exists
    /\ rPc' = [rPc EXCEPT ![p] = "run"]
    /\ rFn' = [rFn EXCEPT ![p] = fn]
    /\ rObj' = [rObj EXCEPT ![p] =
           CASE fn \in CreateFns -> [exists |-> FALSE, spec |-> spec]
             [] fn = LocalExpand -> SetSpecSize(store, newSize)
             [] fn = LvmUpdate -> store
             [] OTHER -> NoRecord]
    /\ UNCHANGED <<rAttempts, rRet>>
    /\ UNCHANGED <<createErr>>
    /\ UNCHANGED storeVars
    /\ UNCHANGED waitVars
    /\ UNCHANGED delVars
    /\ UNCHANGED placeVars
    /\ UNCHANGED eqVars
    /\ UNCHANGED provVars

\* one store call of the wrapper and what the wrapper does with its result
WrapperAttempt(p, fail) ==
    /\ rPc[p] = "run"
    /\ Len(rAttempts[p]) < AttemptLimit(rFn[p])
    /\ LET fn == rFn[p]
           err == StoreCallErr(fn, rObj[p], fail)
           errs == Append(rAttempts[p], err)
           after == AfterAttempt(fn, errs, err)
           eff == StoreCallEffect(fn, rObj[p])
       IN
       /\ rAttempts' = [rAttempts EXCEPT ![p] = errs]
       /\ IF err = NoError /\ eff.store # store
          THEN /\ rev < MaxRev
               /\ store' = eff.store
               /\ tomb' = eff.tomb
               /\ rev' = rev + 1
          ELSE UNCHANGED storeVars
       /\ IF err = NoError /\ fn \in UpdateFns
          THEN rObj' = [rObj EXCEPT ![p] = StoreUpdated(rObj[p])]
          ELSE UNCHANGED rObj
       /\ IF after = Continue
          THEN UNCHANGED <<rPc, rRet>>
          ELSE /\ rPc' = [rPc EXCEPT ![p] = "done"]
               /\ rRet' = [rRet EXCEPT ![p] = after]
    /\ UNCHANGED rFn
    /\ UNCHANGED <<createErr>>
    /\ UNCHANGED waitVars
    /\ UNCHANGED delVars
    /\ UNCHANGED placeVars
    /\ UNCHANGED eqVars
    /\ UNCHANGED provVars

\* ---- placement: GetNodeWithMaxFreeSpace ------------------------------------------
\* the volume groups of the inputs: the i-th group of a list is named
\* LvgNames[i]; a group has its node (Status.Nodes[0].Name), VGSize,
\* AllocatedSize, VGFree and its thin pools
LvgNames == <<"lvg-a", "lvg-b", "lvg-c", "lvg-d", "lvg-e">>
NodeNames == {"node1", "node2"}
PoolName == "pool1"
OtherPoolName == "pool2"

ThickGroups ==
    [node : NodeNames, vgSize : {MaxFree}, allocatedSize : 0..MaxFree,
     vgFree : 0..MaxFree, thinPools : {<<>>}]
ThinGroups ==
    [node : NodeNames, vgSize : {0}, allocatedSize : {0}, vgFree : {0},
     thinPools : {<<>>}
        \cup {<<[name |-> n, availableSpace |-> a]>> :
                 n \in {PoolName, OtherPoolName}, a \in 0..MaxFree}]

Named(groups) ==
    [i \in 1..Len(groups) |->
        [name |-> LvgNames[i], node |-> groups[i].node, vgSize |-> groups[i].vgSize,
         allocatedSize |-> groups[i].allocatedSize, vgFree |-> groups[i].vgFree,
         thinPools |-> groups[i].thinPools]]

ListsOf(S) == UNION {[1..n -> S] : n \in 0..MaxGroups}

\* a Thick storage class maps every group to the empty pool name; a Thin one
\* maps some of the groups to a pool name
GroupsOf(lvmType) == IF lvmType = LVMTypeThick THEN ThickGroups ELSE ThinGroups
NamesOf(groups) == {LvgNames[i] : i \in 1..Len(groups)}
ParamDomains(lvmType, groups) ==
    IF lvmType = LVMTypeThick THEN {NamesOf(groups)} ELSE SUBSET NamesOf(groups)
PlaceInput(lvmType, groups, S) ==
    [lvgs |-> Named(groups), lvmType |-> lvmType,
     params |-> [n \in S |-> IF lvmType = LVMTypeThick THEN "" ELSE PoolName]]

\* GetLVMVolumeGroupFreeSpace (line 232-236)
GetLVMVolumeGroupFreeSpace(lvg) == lvg.vgSize - lvg.allocatedSize

\* GetLVMThinPoolFreeSpace (line 238-252): the available space of the first
\* thin pool of that name
GetLVMThinPoolFreeSpace(lvg, thinPoolName) ==
    IF \E i \in 1..Len(lvg.thinPools) : lvg.thinPools[i].name = thinPoolName
    THEN LET i == CHOOSE i \in 1..Len(lvg.thinPools) :
                     /\ lvg.thinPools[i].name = thinPoolName
                     /\ \A j \in 1..(i - 1) : lvg.thinPools[j].name # thinPoolName
         IN [free |-> lvg.thinPools[i].availableSpace, err |-> NoError]
    ELSE [free |-> 0,
          err |-> <<"[GetLVMThinPoolFreeSpace] thin pool not found in lvg">>]

\* line 160-172: the free space of one group for the ranking; freeSpace is
\* the value the variable had before
GroupFreeSpaceMutSizeMinusAllocated(lvg, params, lvmType, freeSpace) ==
    IF lvmType = LVMTypeThick
    THEN [free |-> GetLVMVolumeGroupFreeSpace(lvg), err |-> NoError]
    ELSE IF lvg.name \notin DOMAIN params
    THEN [free |-> freeSpace, err |-> <<"not found in storage class parameters">>]
    ELSE GetLVMThinPoolFreeSpace(lvg, params[lvg.name])
GroupFreeSpace(lvg, params, lvmType, freeSpace) ==
    IF lvmType = LVMTypeThick
    THEN [free |-> lvg.vgFree, err |-> NoError]
    ELSE IF lvmType = LVMTypeThin
    THEN IF lvg.name \notin DOMAIN params
         THEN [free |-> freeSpace,
               err |-> <<"thin pool name for lvg not found in storage class parameters">>]
         ELSE LET r == GetLVMThinPoolFreeSpace(lvg, params[lvg.name]) IN
              IF r.err # NoError
              THEN [free |-> r.free, err |-> Wrap("get free space for thin pool", r.err)]
              ELSE r
    ELSE [free |-> freeSpace, err |-> NoError]

\* line 159-180: the loop from its i-th iteration on
RECURSIVE MaxFreeSpaceLoop(_, _, _, _, _, _, _)
MaxFreeSpaceLoop(lvgs, params, lvmType, i, nodeName, freeSpace, maxFreeSpace) ==
    IF i > Len(lvgs)
    THEN [node |-> nodeName, free |-> maxFreeSpace, err |-> NoError]
    ELSE LET r == GroupFreeSpace(lvgs[i], params, lvmType, freeSpace) IN
         IF r.err # NoError
         THEN [node |-> "", free |-> r.free, err |-> r.err]
         ELSE IF r.free > maxFreeSpace
         THEN MaxFreeSpaceLoop(lvgs, params, lvmType, i + 1, lvgs[i].node, r.free, r.free)
         ELSE MaxFreeSpaceLoop(lvgs, params, lvmType, i + 1, nodeName, r.free, maxFreeSpace)

GetNodeWithMaxFreeSpace(lvgs, params, lvmType) ==
    MaxFreeSpaceLoop(lvgs, params, lvmType, 1, "", 0, 0)

\* sds-lvm-csi GetNodeMaxFreeVGSize (line 184-197), the ranking of the groups
\* it listed: every group is ranked by GetLVMVolumeGroupFreeSpace
RECURSIVE MaxFreeVGSizeLoop(_, _, _, _)
MaxFreeVGSizeLoop(lvgs, i, nodeName, maxFreeSpace) ==
    IF i > Len(lvgs)
    THEN [node |-> nodeName, free |-> maxFreeSpace, err |-> NoError]
    ELSE IF GetLVMVolumeGroupFreeSpace(lvgs[i]) > maxFreeSpace
    THEN MaxFreeVGSizeLoop(lvgs, i + 1, lvgs[i].node, GetLVMVolumeGroupFreeSpace(lvgs[i]))
    ELSE MaxFreeVGSizeLoop(lvgs, i + 1, nodeName, maxFreeSpace)

GetNodeMaxFreeVGSize(lvgs) == MaxFreeVGSizeLoop(lvgs, 1, "", 0)

NoPlacement == [node |-> "", free |-> 0, err |-> <<"not called">>]

ApplyGetNodeWithMaxFreeSpace ==
    /\ placePc = "ready"
    /\ placePc' = "done"
    /\ placeOut' = GetNodeWithMaxFreeSpace(placeIn.lvgs, placeIn.params, placeIn.lvmType)
    /\ UNCHANGED <<placeIn, placeSel, placeSpec>>
    /\ UNCHANGED <<createErr>>
    /\ UNCHANGED storeVars
    /\ UNCHANGED waitVars
    /\ UNCHANGED delVars
    /\ UNCHANGED retryVars
    /\ UNCHANGED eqVars
    /\ UNCHANGED provVars

ApplyGetNodeMaxFreeVGSize ==
    /\ placePc = "ready"
    /\ placePc' = "doneLvm"
    /\ placeOut' = GetNodeMaxFreeVGSize(placeIn.lvgs)
    /\ UNCHANGED <<placeIn, placeSel, placeSpec>>
    /\ UNCHANGED <<createErr>>
    /\ UNCHANGED storeVars
    /\ UNCHANGED waitVars
    /\ UNCHANGED delVars
    /\ UNCHANGED retryVars
    /\ UNCHANGED eqVars
    /\ UNCHANGED provVars

\* SelectLVG (line 326-333): the first group of the list on that node
ZeroLVG ==
    [name |-> "", node |-> "", vgSize |-> 0, allocatedSize |-> 0, vgFree |-> 0,
     thinPools |-> <<>>]

SelectLVGMutLast(storageClassLVGs, nodeName) ==
    IF \E i \in 1..Len(storageClassLVGs) : storageClassLVGs[i].node = nodeName
    THEN LET i == CHOOSE i \in 1..Len(storageClassLVGs) :
                     /\ storageClassLVGs[i].node = nodeName
                     /\ \A j \in (i + 1)..Len(storageClassLVGs) :
                            storageClassLVGs[j].node # nodeName
         IN [lvg |-> storageClassLVGs[i], err |-> NoError]
    ELSE [lvg |-> ZeroLVG, err |-> <<"[SelectLVG] no LVMVolumeGroup found for node">>]
SelectLVG(storageClassLVGs, nodeName) ==
    IF \E i \in 1..Len(storageClassLVGs) : storageClassLVGs[i].node = nodeName
    THEN LET i == CHOOSE i \in 1..Len(storageClassLVGs) :
                     /\ storageClassLVGs[i].node = nodeName
                     /\ \A j \in 1..(i - 1) : storageClassLVGs[j].node # nodeName
         IN [lvg |-> storageClassLVGs[i], err |-> NoError]
    ELSE [lvg |-> ZeroLVG, err |-> <<"[SelectLVG] no LVMVolumeGroup found for node">>]

NoSelection == [node |-> "", lvg |-> ZeroLVG, err |-> <<"not called">>]
NoSpec == [called |-> FALSE]

Selection(storageClassLVGs, nodeName) ==
    [node |-> nodeName,
     lvg |-> SelectLVG(storageClassLVGs, nodeName).lvg,
     err |-> SelectLVG(storageClassLVGs, nodeName).err]

\* Provision without a preferred node: SelectLVG is given the node that
\* GetNodeWithMaxFreeSpace returned for the same groups
ApplySelectLVGOfMaxNode ==
    /\ placePc = "done"
    /\ placeOut.err = NoError
    /\ placePc' = "placed"
    /\ placeSel' = Selection(placeIn.lvgs, placeOut.node)
    /\ UNCHANGED <<placeIn, placeOut, placeSpec>>
    /\ UNCHANGED <<createErr>>
    /\ UNCHANGED storeVars
    /\ UNCHANGED waitVars
    /\ UNCHANGED delVars
    /\ UNCHANGED retryVars
    /\ UNCHANGED eqVars
    /\ UNCHANGED provVars

\* SelectLVG applied to a node the caller names: the nodes of the groups, the
\* empty name and a node that has no group
SelectNodes == NodeNames \cup {"", "node3"}
SelectGroups ==
    [node : NodeNames, vgSize : {0}, allocatedSize : {0}, vgFree : {0},
     thinPools : {<<>>}]

ApplySelectLVG(nodeName) ==
    /\ placePc = "ready"
    /\ placePc' = "selected"
    /\ placeSel' = Selection(placeIn.lvgs, nodeName)
    /\ UNCHANGED <<placeIn, placeOut, placeSpec>>
    /\ UNCHANGED <<createErr>>
    /\ UNCHANGED storeVars
    /\ UNCHANGED waitVars
    /\ UNCHANGED delVars
    /\ UNCHANGED retryVars
    /\ UNCHANGED eqVars
    /\ UNCHANGED provVars

\* ---- GetLLVSpec ---------------------------------------------------------------
\* llvSize.String() of a quantity below 1024: its decimal digits
Digits == <<"0", "1", "2", "3", "4", "5", "6", "7", "8", "9">>
RECURSIVE QuantityString(_)
QuantityString(v) ==
    IF v < 10 THEN Digits[v + 1]
    ELSE QuantityString(v \div 10) \o Digits[(v % 10) + 1]

LVNames == {"pvc-1"}
SpecSizes == {1, 12}

\* a map read of a key the map does not hold gives the empty string
MapGet(params, key) == IF key \in DOMAIN params THEN params[key] ELSE ""

NilThin == [present |-> FALSE, poolName |-> ""]
NilThick == [present |-> FALSE, contiguous |-> FALSE]

\* line 313-318: Thick is set only when contiguous is true
ThickSpecMutExplicitFalse(contiguous) == [present |-> TRUE, contiguous |-> contiguous]
ThickSpec(contiguous) ==
    IF contiguous THEN [present |-> TRUE, contiguous |-> contiguous] ELSE NilThick

GetLLVSpec(lvName, selectedLVG, params, lvmType, llvSize, contiguous) ==
    [actualLVNameOnTheNode |-> lvName,
     type |-> lvmType,
     size |-> QuantityString(llvSize),
     lvmVolumeGroupName |-> selectedLVG.name,
     thin |-> IF lvmType = LVMTypeThin
              THEN [present |-> TRUE, poolName |-> MapGet(params, selectedLVG.name)]
              ELSE NilThin,
     thick |-> IF lvmType = LVMTypeThick THEN ThickSpec(contiguous) ELSE NilThick]

ApplyGetLLVSpec(lvName, llvSize, contiguous) ==
    /\ placePc \in {"selected", "placed"}
    /\ placeSel.err = NoError
    /\ placePc' = "built"
    /\ placeSpec' = [called |-> TRUE, lvName |-> lvName, llvSize |-> llvSize,
                     contiguous |-> contiguous,
                     spec |-> GetLLVSpec(lvName, placeSel.lvg, placeIn.params,
                                         placeIn.lvmType, llvSize, contiguous)]
    /\ UNCHANGED <<placeIn, placeOut, placeSel>>
    /\ UNCHANGED <<createErr>>
    /\ UNCHANGED storeVars
    /\ UNCHANGED waitVars
    /\ UNCHANGED delVars
    /\ UNCHANGED retryVars
    /\ UNCHANGED eqVars
    /\ UNCHANGED provVars

\* ---- Provision: placement and Create of callers with their own volumes ---------
\* the volume groups of a Thick storage class, their bookkeeping up to date
ProvGroups ==
    {[node |-> n, vgSize |-> MaxFree, allocatedSize |-> MaxFree - f, vgFree |-> f,
      thinPools |-> <<>>] : n \in NodeNames, f \in 1..MaxFree}
ProvParams == [n \in {LvgNames[1], LvgNames[2]} |-> ""]
ProvSizes == 1..MaxFree

NoVolume == [exists |-> FALSE, group |-> "", size |-> 0, accounted |-> FALSE]
NoProvision ==
    [pc |-> "idle", lvgs |-> <<>>, free |-> 0, lvg |-> "", size |-> 0, err |-> NoError]

\* the sizes of the records on a group that its free space does not reflect yet
RECURSIVE SumSizes(_)
SumSizes(T) ==
    IF T = {} THEN 0
    ELSE LET p == CHOOSE p \in T : TRUE IN recs[p].size + SumSizes(T \ {p})
Unaccounted(name) ==
    SumSizes({p \in Callers :
                 recs[p].exists /\ ~recs[p].accounted /\ recs[p].group = name})

\* GetLVGList (line 294-297): the groups as the store holds them
GetLVGListMutReserved(fail) ==
    [items |-> [i \in 1..Len(lvgStore) |->
                   [lvgStore[i] EXCEPT !.vgFree = lvgStore[i].vgFree - Unaccounted(lvgStore[i].name)]],
     err |-> StoreListErr(fail)]
GetLVGList(fail) ==
    [items |-> IF StoreListErr(fail) = NoError THEN lvgStore ELSE <<>>,
     err |-> StoreListErr(fail)]

\* GetStorageClassLVGsAndParameters line 278-289: the groups the storage class
\* names, in the order of the list
RECURSIVE StorageClassLVGs(_, _)
StorageClassLVGs(items, params) ==
    IF items = <<>> THEN <<>>
    ELSE IF Head(items).name \in DOMAIN params
    THEN <<Head(items)>> \o StorageClassLVGs(Tail(items), params)
    ELSE StorageClassLVGs(Tail(items), params)

Failed(p, err) == [prov EXCEPT ![p].pc = "failed", ![p].err = err]

\* Provision up to the choice of the group: the List, GetNodeWithMaxFreeSpace
\* and SelectLVG
ProvisionPlace(p, size, fail) ==
    /\ prov[p].pc = "idle"
    /\ LET list == GetLVGList(fail)
           lvgs == StorageClassLVGs(list.items, ProvParams)
           place == GetNodeWithMaxFreeSpace(lvgs, ProvParams, LVMTypeThick)
           sel == SelectLVG(lvgs, place.node)
       IN prov' = IF list.err # NoError THEN Failed(p, list.err)
                  ELSE IF place.err # NoError THEN Failed(p, place.err)
                  ELSE IF sel.err # NoError THEN Failed(p, sel.err)
                  ELSE [prov EXCEPT ![p] = [pc |-> "placed", lvgs |-> lvgs,
                                            free |-> place.free, lvg |-> sel.lvg.name,
                                            size |-> size, err |-> NoError]]
    /\ UNCHANGED <<lvgStore, recs>>
    /\ UNCHANGED <<createErr>>
    /\ UNCHANGED storeVars
    /\ UNCHANGED waitVars
    /\ UNCHANGED delVars
    /\ UNCHANGED retryVars
    /\ UNCHANGED placeVars
    /\ UNCHANGED eqVars

\* Provision: CreateLVMLogicalVolume (line 48-63) of the caller's volume on the
\* group it selected
ProvisionCreate(p, fail) ==
    /\ prov[p].pc = "placed"
    /\ LET err == IF fail THEN ErrUnavailable
                  ELSE IF recs[p].exists THEN ErrAlreadyExists
                  ELSE NoError
       IN IF err = NoError
          THEN /\ recs' = [recs EXCEPT ![p] = [exists |-> TRUE, group |-> prov[p].lvg,
                                               size |-> prov[p].size,
                                               accounted |-> FALSE]]
               /\ prov' = [prov EXCEPT ![p].pc = "created"]
          ELSE /\ prov' = Failed(p, err)
               /\ UNCHANGED recs
    /\ UNCHANGED lvgStore
    /\ UNCHANGED <<createErr>>
    /\ UNCHANGED storeVars
    /\ UNCHANGED waitVars
    /\ UNCHANGED delVars
    /\ UNCHANGED retryVars
    /\ UNCHANGED placeVars
    /\ UNCHANGED eqVars

\* the reconciler allocates the volume of a record and the group's sizes follow
ReconcilerAccount(p) ==
    /\ recs[p].exists
    /\ ~recs[p].accounted
    /\ recs' = [recs EXCEPT ![p].accounted = TRUE]
    /\ lvgStore' = [i \in 1..Len(lvgStore) |->
                     IF lvgStore[i].name = recs[p].group /\ lvgStore[i].vgFree >= recs[p].size
                     THEN [lvgStore[i] EXCEPT
                              !.vgFree = lvgStore[i].vgFree - recs[p].size,
                              !.allocatedSize = lvgStore[i].allocatedSize + recs[p].size]
                     ELSE lvgStore[i]]
    /\ UNCHANGED prov
    /\ UNCHANGED <<createErr>>
    /\ UNCHANGED storeVars
    /\ UNCHANGED waitVars
    /\ UNCHANGED delVars
    /\ UNCHANGED retryVars
    /\ UNCHANGED placeVars
    /\ UNCHANGED eqVars

\* ---- properties ---------------------------------------------------------------
RemoveFn == "removeLLVFinalizerIfExist"
DeleteFn == "DeleteLVMLogicalVolume"

\* positions in calls of the Updates issued by removeLLVFinalizerIfExist
UpdateCalls == {i \in 1..Len(calls) : calls[i].fn = RemoveFn /\ calls[i].op = "Update"}
RemoveCalls == {i \in 1..Len(calls) : calls[i].fn = RemoveFn}
DeleteCalls == {i \in 1..Len(calls) : calls[i].op = "Delete"}

\* C1: a record that comes into existence carries the coordinator's finalizer,
\* and whenever the store removes a record, the record as removed no longer
\* carries that finalizer.
C1_FinalizerFromCreationUntilRemoval ==
    [][ /\ (~store.exists /\ store'.exists)
            => HasFinalizer(store'.fin, SDSLocalVolumeCSIFinalizer)
        /\ (store.exists /\ ~store'.exists)
            => /\ tomb'.exists
               /\ ~HasFinalizer(tomb'.fin, SDSLocalVolumeCSIFinalizer) ]_vars

\* C1 witness: DeleteLVMLogicalVolume released the finalizer of a created
\* record and its Delete made the store remove the record.
C1_Witness ==
    /\ dPc = "done" /\ dErr = NoError
    /\ rfRet.removed
    /\ HasFinalizer(rfArg.fin, SDSLocalVolumeCSIFinalizer)
    /\ tomb.exists /\ ~store.exists
    /\ calls[Len(calls)].op = "Delete"

\* C2: a Delete is the last call, it follows a successful Get and a release
\* that returned no error; a failed Get or a failed release ends
\* DeleteLVMLogicalVolume with that error as the cause and without a Delete.
C2_GetReleaseDelete ==
    /\ \A i \in DeleteCalls :
          /\ i = Len(calls) /\ i > 1
          /\ calls[1] = Call(DeleteFn, "Get", NoError)
          /\ \A j \in 2..(i - 1) : calls[j].fn = RemoveFn
          /\ rfRet.returned /\ rfRet.err = NoError
    /\ (Len(calls) > 0 /\ calls[1].err # NoError)
          => /\ dPc = "done" /\ Len(calls) = 1
             /\ dErr = Wrap("get LVMLogicalVolume", calls[1].err)
    /\ (rfRet.returned /\ rfRet.err # NoError)
          => /\ dPc = "done" /\ DeleteCalls = {}
             /\ dErr = Wrap("remove finalizers from LVMLogicalVolume", rfRet.err)

\* C2 witness: a whole run Get, Update, Delete
C2_Witness ==
    /\ dPc = "done"
    /\ Len(calls) = 3
    /\ calls[2] = Call(RemoveFn, "Update", NoError)
    /\ calls[3] = Call(DeleteFn, "Delete", NoError)

\* C3: called with a record that lacks the finalizer, removeLLVFinalizerIfExist
\* issues no store call, leaves the record as it is and returns (false, nil).
C3_AbsentTokenNoCall ==
    (rfArg.exists /\ ~HasFinalizer(rfArg.fin, SDSLocalVolumeCSIFinalizer))
        => /\ RemoveCalls = {}
           /\ llv = rfArg
           /\ dPc \in {"remove", "delete", "done"}
           /\ rfRet.returned => (~rfRet.removed /\ rfRet.err = NoError)

\* C3 witness: the call returned for a record that kept another finalizer only
C3_Witness ==
    /\ rfArg.exists
    /\ rfArg.fin = <<ReconcilerFinalizer>>
    /\ rfRet.returned

\* C4: k conflicts followed by an accepted Update (k < limit) end the release
\* with (true, nil) and no later call; there are never more Updates than the
\* limit, and a limit's worth of conflicts ends the release with an error.
C4_ConflictsWithinBudget ==
    /\ Cardinality(UpdateCalls) <= KubernetesAPIRequestLimit
    /\ \A i \in UpdateCalls :
          /\ calls[i].err = NoError
                => /\ \A j \in RemoveCalls : j <= i
                   /\ rfRet = [returned |-> TRUE, removed |-> TRUE, err |-> NoError]
          /\ \A j \in UpdateCalls : j < i => IsConflict(calls[j].err)
    /\ ( /\ Cardinality(UpdateCalls) = KubernetesAPIRequestLimit
         /\ \A i \in UpdateCalls : calls[i].err = ErrConflict )
          => /\ rfRet.returned /\ ~rfRet.removed /\ rfRet.err # NoError
             /\ dPc = "done"

\* C4 witness: limit-1 conflicts, then the Update is accepted
C4_Witness ==
    /\ Cardinality(UpdateCalls) = KubernetesAPIRequestLimit
    /\ \E i \in UpdateCalls :
          /\ calls[i].err = NoError
          /\ \A j \in UpdateCalls : j # i => calls[j].err = ErrConflict
    /\ rfRet.removed

\* C5: the error returned after a limit's worth of conflicts has the last
\* conflict as its cause.
C5_ExhaustionWrapsConflict ==
    ( /\ rfRet.returned
      /\ Cardinality(UpdateCalls) = KubernetesAPIRequestLimit
      /\ \A i \in UpdateCalls : calls[i].err = ErrConflict )
        => ErrorIs(rfRet.err, ErrConflict)

\* C6: an Update that fails with something else than a conflict is the last
\* call; the release returns (false, error) with that failure as the cause.
C6_NonConflictFailsAtOnce ==
    \A i \in UpdateCalls :
        (calls[i].err # NoError /\ calls[i].err # ErrConflict)
            => /\ i = Len(calls)
               /\ dPc = "done"
               /\ rfRet.returned /\ ~rfRet.removed
               /\ rfRet.err = Wrap("error updating LVMLogicalVolume", calls[i].err)

\* C6 witness: the failure came on the first attempt, budget left
C6_Witness ==
    /\ Len(calls) = 2
    /\ calls[2] = Call(RemoveFn, "Update", ErrUnavailable)
    /\ attempt = 0
    /\ rfRet.returned

\* a fetched record that is Created with its size within the tolerance
CreatedInTolerance(o) ==
    /\ o.exists /\ o.status.present
    /\ o.status.phase = LLVStatusCreated
    /\ AbsDiff(o.status.actualSize, wArgs.llvSize) < wArgs.delta

\* the poll loop returned success with observation i
SuccessAt(i) ==
    /\ i = Len(wObs)
    /\ wPc = "done" /\ wErr = NoError
    /\ attemptCounter = i

\* C7 as stated: every observation that is Created within the tolerance ends
\* the loop with success and the attempt count of that observation; success
\* is returned for such an observation only.
C7_SuccessAtFirstMatch ==
    /\ \A i \in 1..Len(wObs) : CreatedInTolerance(wObs[i]) => SuccessAt(i)
    /\ (wPc = "done" /\ wErr = NoError)
          => (Len(wObs) > 0 /\ CreatedInTolerance(wObs[Len(wObs)]))

\* C7 amended: the same for observations whose record is not being deleted.
C7_SuccessAtFirstMatchNotDeleting ==
    /\ \A i \in 1..Len(wObs) :
          (CreatedInTolerance(wObs[i]) /\ ~wObs[i].del) => SuccessAt(i)
    /\ (wPc = "done" /\ wErr = NoError)
          => (Len(wObs) > 0 /\ CreatedInTolerance(wObs[Len(wObs)]))

\* C7 witness: Pending, Pending, Created with a wrong size, Created with the
\* right size: success with attempt count 4
C7_Witness ==
    /\ Len(wObs) = 4
    /\ wObs[1].status.present /\ wObs[1].status.phase = LLVStatusPending
    /\ wObs[2].status.present /\ wObs[2].status.phase = LLVStatusPending
    /\ wObs[3].status.phase = LLVStatusCreated /\ ~CreatedInTolerance(wObs[3])
    /\ CreatedInTolerance(wObs[4])
    /\ wPc = "done" /\ wErr = NoError /\ attemptCounter = 4

\* C8: an observation with phase Failed of a record not being deleted is the
\* last one; the loop returns VolumeFailed with the reason of that observation.
C8_FailedReturnsAtOnce ==
    \A i \in 1..Len(wObs) :
        ( /\ wObs[i].exists /\ wObs[i].status.present
          /\ wObs[i].status.phase = LLVStatusFailed
          /\ ~wObs[i].del )
            => /\ i = Len(wObs) /\ wFetches = i
               /\ wPc = "done"
               /\ wErr = <<"VolumeFailed", wObs[i].status.reason>>

\* C8 witness: Failed seen at a later position than the first
C8_Witness ==
    /\ Len(wObs) >= 2
    /\ wObs[Len(wObs)].exists
    /\ wObs[Len(wObs)].status.phase = LLVStatusFailed
    /\ ~wObs[Len(wObs)].del
    /\ wPc = "done"

\* C9: an observation of a record being deleted is the last one and the loop
\* returns ConflictingDeletion, whatever the status of the record.
C9_DeletionTakesPrecedence ==
    \A i \in 1..Len(wObs) :
        (wObs[i].exists /\ wObs[i].del)
            => /\ i = Len(wObs)
               /\ wPc = "done"
               /\ wErr = <<"ConflictingDeletion">>

\* C10: once ctx is done no Get is issued any more.
C10_NoFetchAfterCancel ==
    ctxWait => wFetches = wCancelAt

\* C11: a failed fetch is the last one: WaitForStatusUpdate returns the error
\* of that fetch with the attempt count of that fetch.
C11_FetchErrorReturnsAtOnce ==
    \A i \in 1..Len(wObs) :
        ~wObs[i].exists
            => /\ i = Len(wObs) /\ wFetches = i
               /\ wPc = "done"
               /\ wErr = wObs[i].err /\ wErr # NoError
               /\ attemptCounter = i

\* C11 witness: a transient failure of a later fetch ended the loop
C11_Witness ==
    /\ Len(wObs) >= 2
    /\ ~wObs[Len(wObs)].exists
    /\ wObs[Len(wObs)].err = ErrUnavailable
    /\ wPc = "done"

\* C12: when the Get of DeleteLVMLogicalVolume answers NotFound, it is the only
\* store call and DeleteLVMLogicalVolume returns an error that is NotFound.
C12_AbsentNameNotFound ==
    (Len(calls) > 0 /\ calls[1].err = ErrNotFound)
        => /\ Len(calls) = 1
           /\ dPc = "done"
           /\ dErr # NoError /\ ErrorIs(dErr, ErrNotFound)
           /\ ~rfRet.returned

\* C12 witness: DeleteLVMLogicalVolume returned for a name the store lacks
C12_Witness ==
    /\ dPc = "done"
    /\ ~store.exists
    /\ calls = <<Call(DeleteFn, "Get", ErrNotFound)>>

\* the callers whose Create the store accepted
Accepted ==
    {p \in Callers : rFn[p] \in CreateFns
                       /\ \E i \in 1..Len(rAttempts[p]) : rAttempts[p][i] = NoError}

\* the callers of Create that returned without their Create being accepted
Refused ==
    {p \in Callers : rFn[p] \in CreateFns /\ rPc[p] = "done"} \ Accepted

\* C13 as stated: at most one Create of the name is accepted, and once one is,
\* every other caller that returned got AlreadyExists.
C13_OneAcceptedOthersAlreadyExists ==
    /\ Cardinality(Accepted) <= 1
    /\ Accepted # {} => \A p \in Refused : ErrorIs(rRet[p], ErrAlreadyExists)

\* C13 amended: at most one Create is accepted; a caller that was not accepted
\* returns an error, which is AlreadyExists as soon as the store answered one
\* of its attempts and the transient failure otherwise; a caller that was
\* accepted returns no error.
C13_OneAcceptedOthersFail ==
    /\ Cardinality(Accepted) <= 1
    /\ \A p \in Accepted : rPc[p] = "done" /\ rRet[p] = NoError
    /\ \A p \in Refused :
          /\ rRet[p] # NoError
          /\ \A i \in 1..Len(rAttempts[p]) :
                rAttempts[p][i] \in {ErrAlreadyExists, ErrUnavailable}
          /\ IF \E i \in 1..Len(rAttempts[p]) : rAttempts[p][i] = ErrAlreadyExists
             THEN rRet[p] = ErrAlreadyExists
             ELSE ErrorIs(rRet[p], ErrUnavailable)

\* C13 witness: two callers raced, one was accepted, the other one got
\* AlreadyExists on its second attempt
C13_Witness ==
    /\ Cardinality(Accepted) = 1
    /\ \E p \in Refused :
          /\ rAttempts[p] = <<ErrUnavailable, ErrAlreadyExists>>
          /\ rRet[p] = ErrAlreadyExists

\* C14: an attempt of Create answered AlreadyExists is the last attempt of the
\* call, and the call returns that error as it is.
C14_AlreadyExistsNotRetried ==
    \A p \in Callers :
        rFn[p] \in CreateFns =>
            \A i \in 1..Len(rAttempts[p]) :
                rAttempts[p][i] = ErrAlreadyExists
                    => /\ i = Len(rAttempts[p])
                       /\ rPc[p] = "done"
                       /\ rRet[p] = ErrAlreadyExists

\* C14 witness: AlreadyExists on the second of three possible attempts
C14_Witness ==
    \E p \in Callers :
        /\ rFn[p] = LvmCreate
        /\ rAttempts[p] = <<ErrUnavailable, ErrAlreadyExists>>
        /\ rPc[p] = "done"

\* C15: every wrapper retries a transient failure until the third attempt,
\* stops at the first attempt that succeeds and never makes a fourth.
C15_UniformBoundedRetry ==
    \A p \in Callers :
        rPc[p] = "done" =>
            /\ Len(rAttempts[p]) <= 3
            /\ \A i \in 1..Len(rAttempts[p]) :
                  /\ rAttempts[p][i] = NoError
                        => (i = Len(rAttempts[p]) /\ rRet[p] = NoError)
                  /\ (rAttempts[p][i] = ErrUnavailable /\ i < 3)
                        => i < Len(rAttempts[p])

\* C16: a wrapper whose attempts all failed returns an error that has the
\* error of the last attempt as its cause.
C16_ExhaustionReturnsLastError ==
    \A p \in Callers :
        ( /\ rPc[p] = "done" /\ rFn[p] \in LoopFns
          /\ Len(rAttempts[p]) = KubernetesApiRequestLimit
          /\ \A i \in 1..Len(rAttempts[p]) : rAttempts[p][i] # NoError )
            => /\ rRet[p] # NoError
               /\ rRet[p] = Wrap(AfterAttemptsMsg(rFn[p]),
                                 rAttempts[p][Len(rAttempts[p])])

\* C17: an Update outside removeLLVFinalizerIfExist that is answered Conflict
\* is the last attempt of the call, which returns the conflict.
C17_ConflictNotRetriedStale ==
    \A p \in Callers :
        rFn[p] \in UpdateFns =>
            \A i \in 1..Len(rAttempts[p]) :
                rAttempts[p][i] = ErrConflict
                    => /\ i = Len(rAttempts[p])
                       /\ rPc[p] = "done" => ErrorIs(rRet[p], ErrConflict)

\* the free space GetNodeWithMaxFreeSpace or GetNodeMaxFreeVGSize compares for
\* the i-th group of a list it ranked to the end, and the largest of them
RankedFree(i) ==
    IF placePc = "doneLvm"
    THEN placeIn.lvgs[i].vgSize - placeIn.lvgs[i].allocatedSize
    ELSE IF placeIn.lvmType = LVMTypeThick
    THEN placeIn.lvgs[i].vgFree
    ELSE GetLVMThinPoolFreeSpace(placeIn.lvgs[i], placeIn.params[placeIn.lvgs[i].name]).free
MaxRankedFree ==
    CHOOSE m \in {RankedFree(i) : i \in 1..Len(placeIn.lvgs)} :
        \A j \in 1..Len(placeIn.lvgs) : RankedFree(j) <= m
Ranked ==
    /\ placePc \in {"done", "doneLvm"}
    /\ placeOut.err = NoError
    /\ Len(placeIn.lvgs) > 0

\* C18: when several groups have the maximum free space, the node returned is
\* the host of the first of them in the order of the list
C18_FirstMaximumWins ==
    Ranked =>
        \E i \in 1..Len(placeIn.lvgs) :
            /\ RankedFree(i) = MaxRankedFree
            /\ \A j \in 1..(i - 1) : RankedFree(j) < MaxRankedFree
            /\ (\E k \in (i + 1)..Len(placeIn.lvgs) : RankedFree(k) = MaxRankedFree)
                => placeOut.node = placeIn.lvgs[i].node

\* C19: for every non-empty list the function returns the host node of a group
\* whose free space is the maximum over the list, with that maximum, also when
\* every group has zero free space
C19_ReturnsNodeOfMaximum ==
    Ranked =>
        /\ placeOut.free = MaxRankedFree
        /\ \E i \in 1..Len(placeIn.lvgs) :
            /\ RankedFree(i) = MaxRankedFree
            /\ placeOut.node = placeIn.lvgs[i].node

\* the group has no selector entry, or no thin pool of the name its entry gives
PoolMissing(i) ==
    \/ placeIn.lvgs[i].name \notin DOMAIN placeIn.params
    \/ \A t \in 1..Len(placeIn.lvgs[i].thinPools) :
           placeIn.lvgs[i].thinPools[t].name # placeIn.params[placeIn.lvgs[i].name]
ClaimedFree(i) ==
    IF placeIn.lvmType = LVMTypeThick
    THEN placeIn.lvgs[i].vgSize - placeIn.lvgs[i].allocatedSize
    ELSE LET t == CHOOSE t \in 1..Len(placeIn.lvgs[i].thinPools) :
                placeIn.lvgs[i].thinPools[t].name = placeIn.params[placeIn.lvgs[i].name]
         IN placeIn.lvgs[i].thinPools[t].availableSpace

ReportedFree(i) ==
    IF placeIn.lvmType = LVMTypeThick
    THEN placeIn.lvgs[i].vgFree
    ELSE ClaimedFree(i)

C21_SelectedGroupHasMaximum ==
    (placePc = "placed" /\ placeSel.err = NoError) =>
        \E i \in 1..Len(placeIn.lvgs) :
            /\ placeIn.lvgs[i] = placeSel.lvg
            /\ RankedFree(i) = MaxRankedFree

\* C22: SelectLVG returns the first group of the list whose node is the given
\* node, and fails exactly when the list has no group on that node (an empty
\* list and an empty node name included); it never returns a group of
\* another node
C22_FirstGroupOfNode ==
    placePc = "selected" =>
        IF \E i \in 1..Len(placeIn.lvgs) : placeIn.lvgs[i].node = placeSel.node
        THEN /\ placeSel.err = NoError
             /\ placeSel.lvg.node = placeSel.node
             /\ \E i \in 1..Len(placeIn.lvgs) :
                 /\ placeIn.lvgs[i] = placeSel.lvg
                 /\ \A j \in 1..(i - 1) : placeIn.lvgs[j].node # placeSel.node
        ELSE placeSel.err # NoError

\* the second and the third group of the list are on the given node, the first
\* is not, and the second was returned
C22_Witness ==
    /\ placePc = "selected"
    /\ Len(placeIn.lvgs) = 3
    /\ placeIn.lvgs[1].node # placeSel.node
    /\ placeIn.lvgs[2].node = placeSel.node
    /\ placeIn.lvgs[3].node = placeSel.node
    /\ placeSel.lvg = placeIn.lvgs[2]

\* C23: GetLLVSpec sets the group name to the selected group's name; Thin sets
\* the pool name to the selector's entry for that group (empty without an
\* entry) and no thick parameters; Thick sets no pool and sets contiguous only
\* when the argument is true; the step changes neither its arguments nor the
\* store
C23_SpecBuilt ==
    /\ [](placePc = "built" =>
            /\ placeSpec.spec.lvmVolumeGroupName = placeSel.lvg.name
            /\ placeIn.lvmType = LVMTypeThin =>
                /\ placeSpec.spec.thin.present
                /\ placeSpec.spec.thin.poolName
                       = (IF placeSel.lvg.name \in DOMAIN placeIn.params
                          THEN placeIn.params[placeSel.lvg.name] ELSE "")
                /\ ~placeSpec.spec.thick.present
            /\ placeIn.lvmType = LVMTypeThick =>
                /\ ~placeSpec.spec.thin.present
                /\ placeSpec.spec.thick.present <=> placeSpec.contiguous
                /\ placeSpec.spec.thick.present => placeSpec.spec.thick.contiguous)
    /\ [][placePc' = "built" => UNCHANGED <<placeIn, placeSel, storeVars>>]_vars

\* a Thick spec built with contiguous false: no thick parameters
C23_Witness ==
    /\ placePc = "built"
    /\ placeIn.lvmType = LVMTypeThick
    /\ ~placeSpec.contiguous
    /\ ~placeSpec.spec.thick.present
    /\ placeSpec.spec.lvmVolumeGroupName = "lvg-b"

\* C24: AreSizesEqualWithinDelta is true exactly when |a - b| < t; it is true
\* when a = b, false when |a - b| = t, and the same with a and b exchanged
C24_EqualWithinDelta ==
    eqPc = "done" =>
        LET a == eqIn.leftSize
            b == eqIn.rightSize
            t == eqIn.allowedDelta
            d == IF a >= b THEN a - b ELSE b - a
        IN /\ eqOut.leftRight <=> d < t
           /\ a = b => eqOut.leftRight
           /\ d = t => ~eqOut.leftRight
           /\ eqOut.leftRight <=> eqOut.rightLeft

\* C24: as amended, it is true when a = b only for a tolerance above zero
C24_EqualWithinPositiveDelta ==
    eqPc = "done" =>
        LET a == eqIn.leftSize
            b == eqIn.rightSize
            t == eqIn.allowedDelta
            d == IF a >= b THEN a - b ELSE b - a
        IN /\ eqOut.leftRight <=> d < t
           /\ (a = b /\ t > 0) => eqOut.leftRight
           /\ d = t => ~eqOut.leftRight
           /\ eqOut.leftRight <=> eqOut.rightLeft

\* the boundary: leftSize below rightSize by exactly the tolerance, not equal
C24_Witness ==
    /\ eqPc = "done"
    /\ eqIn.allowedDelta > 0
    /\ eqIn.rightSize - eqIn.leftSize = eqIn.allowedDelta
    /\ ~eqOut.leftRight
    /\ ~eqOut.rightLeft

\* the step in which ExpandLVMLogicalVolume makes a store call
ExpandCall ==
    /\ rFn[1] = LocalExpand
    /\ rPc[1] = "run"
    /\ rAttempts'[1] # rAttempts[1]

\* C25: ExpandLVMLogicalVolume makes one conditional Update and returns with
\* its result without a further store call; an accepted Update changes only
\* spec.size of the stored record (and its version), a rejected one leaves
\* the stored record as it was and its error is returned
C25_ExpandChangesOnlySize ==
    [][ExpandCall =>
          /\ Len(rAttempts'[1]) = 1
          /\ rPc'[1] = "done"
          /\ rRet'[1] = rAttempts'[1][1]
          /\ IF rRet'[1] = NoError
             THEN /\ rObj[1].ver = store.ver
                  /\ store' = [store EXCEPT !.spec.size = rObj[1].spec.size,
                                            !.ver = store'.ver]
             ELSE store' = store]_vars

\* an accepted ExpandLVMLogicalVolume of a record that has a finalizer and a
\* status and had another size
C25_Witness ==
    /\ rFn[1] = LocalExpand
    /\ rPc[1] = "done"
    /\ rRet[1] = NoError
    /\ store.exists
    /\ store.ver = rObj[1].ver
    /\ store.fin # <<>>
    /\ store.status.present
    /\ store.spec.size = 2
    /\ tomb = NoRecord

\* C26: selection reserves nothing: a caller's placement reads the groups as
\* the store holds them, with no deduction for the records other callers have
\* created or are about to create, and no step of Provision changes a group
C26_SelectionReservesNothing ==
    [][\A p \in Callers :
          /\ (prov[p].pc = "idle" /\ prov'[p].pc = "placed") => prov'[p].lvgs = lvgStore
          /\ prov'[p] # prov[p] => lvgStore' = lvgStore]_vars

\* two callers read the same free space of the same group, each asked for no
\* more than it, both created their record on the group before the group's
\* sizes reflect either, and the two sizes together exceed what was read
C26_Witness ==
    /\ prov[1].pc = "created"
    /\ prov[2].pc = "created"
    /\ prov[1].lvg = prov[2].lvg
    /\ prov[1].free = prov[2].free
    /\ prov[1].size <= prov[1].free
    /\ prov[2].size <= prov[2].free
    /\ prov[1].size + prov[2].size > prov[1].free
    /\ ~recs[1].accounted
    /\ ~recs[2].accounted
    /\ recs[1].group = recs[2].group
    /\ \E i \in 1..Len(lvgStore) :
           /\ lvgStore[i].name = recs[1].group
           /\ lvgStore[i].vgFree = prov[1].free

\* the step in which removeLLVFinalizerIfExist issues an Update, and the one
\* in which its Update is accepted
ReleaseUpdate ==
    /\ dPc = "remove"
    /\ Len(calls') = Len(calls) + 1
    /\ calls'[Len(calls')].op = "Update"
ReleaseAccepted ==
    /\ ReleaseUpdate
    /\ calls'[Len(calls')].err = NoError

\* C27: the re-fetch after a conflict replaces the local copy by the stored
\* record, an Update that follows a conflict comes right after that re-fetch
\* and is built from its copy, and an accepted Update leaves the record that
\* was stored just before it with the first occurrence of the coordinator's
\* finalizer removed and nothing else changed (the store destroys it when its
\* deletion was requested and no finalizer is left); then (true, nil) is
\* returned
C27_NoLostUpdate ==
    [][/\ (dPc = "refetch" /\ dPc' = "remove") => llv' = store
       /\ (ReleaseUpdate /\ \E j \in UpdateCalls : calls[j].err = ErrConflict)
            => /\ calls[Len(calls)] = Call(RemoveFn, "Get", NoError)
               /\ attempt > 0
       /\ ReleaseAccepted
            => LET i == FinalizerIndex(store.fin, SDSLocalVolumeCSIFinalizer)
                   new == [store EXCEPT
                              !.fin = SubSeq(@, 1, i - 1) \o SubSeq(@, i + 1, Len(@)),
                              !.ver = rev + 1]
               IN /\ i # 0
                  /\ llv = store
                  /\ IF new.del /\ new.fin = <<>>
                     THEN ~store'.exists /\ tomb' = new
                     ELSE store' = new /\ tomb' = tomb
                  /\ rfRet' = [returned |-> TRUE, removed |-> TRUE, err |-> NoError]
      ]_vars

\* an Update accepted after a conflict, on a record to which another writer
\* had added its finalizer behind the coordinator's and the reconciler a status
C27_Witness ==
    /\ rfRet = [returned |-> TRUE, removed |-> TRUE, err |-> NoError]
    /\ \E j \in UpdateCalls : calls[j].err = ErrConflict
    /\ dPc = "delete"
    /\ store.exists
    /\ store.fin = <<ReconcilerFinalizer>>
    /\ store.status.present
    /\ store.ver = llv.ver
    /\ rfArg.fin = <<SDSLocalVolumeCSIFinalizer>>

\* WaitForStatusUpdate is running and has two iterations or more ahead
Polling ==
    /\ wPc \in {"select", "sleep"}
    /\ attemptCounter < MaxPolls - 1

\* the stored record shows a terminal observation: Failed, deletion requested,
\* or Created with the size within tolerance
TerminalObservation ==
    /\ store.exists
    /\ \/ store.del
       \/ /\ store.status.present
          /\ \/ store.status.phase = LLVStatusFailed
             \/ /\ store.status.phase = LLVStatusCreated
                /\ store.status.actualSize - wArgs.llvSize < wArgs.delta
                /\ wArgs.llvSize - store.status.actualSize < wArgs.delta

StaysPending ==
    /\ store.exists
    /\ ~store.del
    /\ store.status.present
    /\ store.status.phase = LLVStatusPending

\* C28: WaitForStatusUpdate returns once its context is done, and once the
\* record has reached and keeps a terminal observation; while the record is
\* Pending and the context is not done it returns only when a fetch fails; and
\* every return is Canceled, a fetch error, the deletion error, the failure
\* error or success
C28_TerminatesUnderFairness ==
    /\ [](Polling /\ ctxWait => <>(wPc = "done"))
    /\ [](Polling /\ TerminalObservation => <>(wPc = "done" \/ ~TerminalObservation))
    /\ [][(wPc # "done" /\ wPc' = "done" /\ StaysPending /\ ~ctxWait)
             => wErr' \in {ErrUnavailable, ErrNotFound}]_vars
    /\ [](wPc = "done" =>
            \/ wErr \in {NoError, ErrCanceled, ErrUnavailable, ErrNotFound,
                          <<"ConflictingDeletion">>}
            \/ \E reason \in Reasons : wErr = <<"VolumeFailed", reason>>)

\* ---- specification ----------------------------------------------------------
InitCoordinator ==
    /\ store = NoRecord
    /\ rev = 0
    /\ tomb = NoRecord
    /\ createErr = <<"none">>
    /\ wPc = "idle"
    /\ wArgs = [llvSize |-> 1, delta |-> 1]
    /\ attemptCounter = 0
    /\ wFetches = 0
    /\ wObs = <<>>
    /\ wErr = NoError
    /\ ctxWait = FALSE
    /\ wCancelAt = -1
    /\ dPc = "idle"
    /\ llv = NoRecord
    /\ attempt = 0
    /\ calls = <<>>
    /\ rfArg = NoRecord
    /\ rfRet = [returned |-> FALSE, removed |-> FALSE, err |-> NoError]
    /\ dErr = NoError
    /\ ctxDel = FALSE
    /\ rPc = [p \in Callers |-> "idle"]
    /\ rFn = [p \in Callers |-> ""]
    /\ rObj = [p \in Callers |-> NoRecord]
    /\ rAttempts = [p \in Callers |-> <<>>]
    /\ rRet = [p \in Callers |-> NoError]

InitPlacement ==
    /\ placePc = "idle"
    /\ placeIn = [lvgs |-> <<>>, lvmType |-> LVMTypeThick, params |-> <<>>]
    /\ placeOut = NoPlacement
    /\ placeSel = NoSelection
    /\ placeSpec = NoSpec

InitEq ==
    /\ eqPc = "idle"
    /\ eqIn = [leftSize |-> 0, rightSize |-> 0, allowedDelta |-> 0]
    /\ eqOut = [leftRight |-> FALSE, rightLeft |-> FALSE]

InitProv ==
    /\ lvgStore = <<>>
    /\ recs = [p \in Callers |-> NoVolume]
    /\ prov = [p \in Callers |-> NoProvision]

\* concurrent Provision calls for volumes of their own over two volume groups
InitProvision ==
    /\ InitCoordinator
    /\ InitPlacement
    /\ InitEq
    /\ \E g \in [1..2 -> ProvGroups] : lvgStore = Named(g)
    /\ recs = [p \in Callers |-> NoVolume]
    /\ prov = [p \in Callers |-> NoProvision]

NextProvision ==
    \/ \E p \in Callers, size \in ProvSizes, fail \in BOOLEAN : ProvisionPlace(p, size, fail)
    \/ \E p \in Callers, fail \in BOOLEAN : ProvisionCreate(p, fail)
    \/ \E p \in Callers : ReconcilerAccount(p)

\* AreSizesEqualWithinDelta applied to every input of the bounded sets
InitEqual ==
    /\ InitCoordinator
    /\ InitPlacement
    /\ eqPc = "ready"
    /\ eqIn \in [leftSize : Sizes, rightSize : Sizes, allowedDelta : EqDeltas]
    /\ eqOut = [leftRight |-> FALSE, rightLeft |-> FALSE]
    /\ InitProv

NextEqual == ApplyAreSizesEqualWithinDelta

Init ==
    /\ InitCoordinator
    /\ InitPlacement
    /\ InitEq
    /\ InitProv

\* the placement functions applied to every input of the bounded sets
InitPlace ==
    /\ InitCoordinator
    /\ placePc = "ready"
    /\ \E lvmType \in {LVMTypeThick, LVMTypeThin} :
       \E groups \in ListsOf(GroupsOf(lvmType)) :
       \E S \in ParamDomains(lvmType, groups) :
           placeIn = PlaceInput(lvmType, groups, S)
    /\ placeOut = NoPlacement
    /\ placeSel = NoSelection
    /\ placeSpec = NoSpec
    /\ InitEq
    /\ InitProv

\* SelectLVG and GetLLVSpec applied to every input of the bounded sets
InitSelect ==
    /\ InitCoordinator
    /\ placePc = "ready"
    /\ \E lvmType \in {LVMTypeThick, LVMTypeThin} :
       \E groups \in ListsOf(SelectGroups) :
       \E S \in ParamDomains(lvmType, groups) :
           placeIn = PlaceInput(lvmType, groups, S)
    /\ placeOut = NoPlacement
    /\ placeSel = NoSelection
    /\ placeSpec = NoSpec
    /\ InitEq
    /\ InitProv

NextSelect ==
    \/ \E nodeName \in SelectNodes : ApplySelectLVG(nodeName)
    \/ \E lvName \in LVNames, llvSize \in SpecSizes, contiguous \in BOOLEAN :
           ApplyGetLLVSpec(lvName, llvSize, contiguous)

NextPlace ==
    \/ ApplyGetNodeWithMaxFreeSpace
    \/ ApplyGetNodeMaxFreeVGSize
    \/ ApplySelectLVGOfMaxNode

\* the store's other clients: provisioning, the reconciler, other writers
NextEnv ==
    \/ \E spec \in LLVSpecs, fail \in BOOLEAN : CreateLVMLogicalVolume(spec, fail)
    \/ ReconcilerSetPending
    \/ \E size \in Sizes : ReconcilerSetCreated(size)
    \/ \E reason \in Reasons : ReconcilerSetFailed(reason)
    \/ WriterAddFinalizer
    \/ \E i \in 1..2 : WriterRemoveFinalizer(i)
    \/ WriterDelete

\* provisioning side: the record is created and WaitForStatusUpdate polls it
NextWait ==
    \/ NextEnv
    \/ \E llvSize \in WaitSizes, delta \in Deltas : WaitStart(llvSize, delta)
    \/ WaitSelect
    \/ \E fail \in BOOLEAN : WaitFetch(fail)
    \/ CancelWait

\* deprovisioning side: DeleteLVMLogicalVolume against the same writers
NextDelete ==
    \/ NextEnv
    \/ DeleteStart
    \/ \E fail \in BOOLEAN : DeleteGet(fail)
    \/ RemoveNotFound
    \/ \E fail \in BOOLEAN : RemoveUpdate(fail)
    \/ \E fail \in BOOLEAN : RemoveRefetch(fail)
    \/ \E fail \in BOOLEAN : DeleteDelete(fail)
    \/ CancelDelete

\* concurrent provisioning: callers create the record of one name
NextCreate ==
    \/ \E p \in Callers, fn \in CreateFns, spec \in LLVSpecs, newSize \in NewSizes :
           WrapperStart(p, fn, spec, newSize)
    \/ \E p \in Callers, fail \in BOOLEAN : WrapperAttempt(p, fail)

\* one caller runs any of the store wrappers against the other writers
NextRetry ==
    \/ NextEnv
    \/ \E fn \in WrapperFns, spec \in LLVSpecs, newSize \in NewSizes :
           WrapperStart(1, fn, spec, newSize)
    \/ \E fail \in BOOLEAN : WrapperAttempt(1, fail)

SpecWait == Init /\ [][NextWait]_vars

\* the goroutine of WaitForStatusUpdate keeps running: its sleep ends and its
\* fetch is answered
SpecWaitFair ==
    /\ Init
    /\ [][NextWait]_vars
    /\ WF_vars(WaitSelect)
    /\ WF_vars(\E fail \in BOOLEAN : WaitFetch(fail))

SpecCreate == Init /\ [][NextCreate]_vars

SpecRetry == Init /\ [][NextRetry]_vars

SpecPlace == InitPlace /\ [][NextPlace]_vars

SpecSelect == InitSelect /\ [][NextSelect]_vars

SpecEqual == InitEqual /\ [][NextEqual]_vars

SpecProvision == InitProvision /\ [][NextProvision]_vars

SpecDelete == Init /\ [][NextDelete]_vars

====
